---- MODULE Spec2Model ----
(***************************************************************************)
(* Model of Dodecahedron.c: the half-space extractor computeBasePlanes,    *)
(* the per-pixel slab ray tracer and the frame loop of main.               *)
(*                                                                         *)
(* Numbers.  The program computes in double.  Its geometry lives in the    *)
(* field Q(sqrt 5) (the golden ratio), so the model computes exactly: a    *)
(* Num <<a, b>> is the real number a + b*sqrt(5) with integers a, b.       *)
(*   - A point coordinate is a Num counted in units of 1/CoordDen, so that *)
(*     the vertices scaled by modelScale = 0.5 have integer coefficients.  *)
(*   - A unit vector (a result of normalize) has irrational components; it *)
(*     is held as a direction vector N of Nums that stands for N/|N|.      *)
(*     normalize keeps the direction and drops the common integer factor.  *)
(*   - A plane offset d = dot(n, p) is held as the Num D = dot(N, p), which*)
(*     stands for D / (CoordDen * |N|).                                    *)
(* Comparisons of doubles are comparisons of these reals, tolerances       *)
(* included.  They are decided exactly; where 32-bit integers cannot decide*)
(* one, the operator has no value and TLC stops with an error instead of   *)
(* guessing.  Rounding error of double arithmetic (about 1e-16) is not     *)
(* modelled.                                                               *)
(***************************************************************************)
EXTENDS Integers, Sequences, FiniteSets, TLC

(***************************************************************************)
(* Program constants                                                       *)
(***************************************************************************)
WINDOW_WIDTH == 800
WINDOW_HEIGHT == 600
NUM_VERTICES == 20
\* TOL is 1e-6 = 1 / TOL_INV
TOL_INV == 1000000
MAX_PLANES == 30
\* the duplicate tolerance 1e-3 = 1 / DUP_TOL_INV
DUP_TOL_INV == 1000
\* modelScale = 0.5 applied to coordinates given in halves: quarters
CoordDen == 4

(***************************************************************************)
(* Bounds of the model                                                     *)
(***************************************************************************)
\* the small plane capacity tried besides MAX_PLANES
SmallCap == 3

(***************************************************************************)
(* Exact arithmetic on a + b*sqrt(5)                                       *)
(***************************************************************************)
Abs(i) == IF i < 0 THEN -i ELSE i

Sgn(i) == IF i > 0 THEN 1 ELSE IF i < 0 THEN -1 ELSE 0

FZero == <<0, 0>>

FInt(i) == <<i, 0>>

FAdd(x, y) == <<x[1] + y[1], x[2] + y[2]>>

FSub(x, y) == <<x[1] - y[1], x[2] - y[2]>>

FNeg(x) == <<-x[1], -x[2]>>

FMul(x, y) == <<x[1] * y[1] + 5 * x[2] * y[2], x[1] * y[2] + x[2] * y[1]>>

FScale(x, i) == <<x[1] * i, x[2] * i>>

RECURSIVE RatioBelowXi(_, _)
\* p/q < 2 + sqrt(5) for integers p >= 0, q > 0, by the continued fraction
\* 2 + sqrt(5) = [4; 4, 4, ...] (no squaring, so no overflow)
RatioBelowXi(p, q) ==
    LET k == p \div q
        r == p % q
    IN  IF k < 4 THEN TRUE
        ELSE IF k > 4 THEN FALSE
        ELSE IF r = 0 THEN TRUE
        ELSE ~RatioBelowXi(q, r)

\* a > b*sqrt(5) for integers a >= 0, b > 0
ExceedsSqrt5(a, b) == ~RatioBelowXi(a + 2 * b, b)

\* the sign of a + b*sqrt(5)
FSign(x) ==
    LET a == x[1]
        b == x[2]
    IN  IF b = 0 THEN Sgn(a)
        ELSE IF a >= 0 /\ b > 0 THEN 1
        ELSE IF a <= 0 /\ b < 0 THEN -1
        ELSE IF a > 0 THEN (IF ExceedsSqrt5(a, -b) THEN 1 ELSE -1)
        ELSE (IF ExceedsSqrt5(-a, b) THEN -1 ELSE 1)

FAbs(x) == IF FSign(x) < 0 THEN FNeg(x) ELSE x

RECURSIVE ISqrtIn(_, _, _)
\* the largest m in lo..hi-1 with m*m <= n (bisection; lo*lo <= n < hi*hi)
ISqrtIn(n, lo, hi) ==
    IF hi - lo <= 1 THEN lo
    ELSE LET mid == lo + (hi - lo) \div 2
         IN  IF mid <= n \div mid THEN ISqrtIn(n, mid, hi)
             ELSE ISqrtIn(n, lo, mid)

\* floor(sqrt(n)) for an integer n >= 0
ISqrt(n) == ISqrtIn(n, 0, (IF n < 46340 THEN n ELSE 46340) + 1)

RECURSIVE FloorMulIn(_, _, _)
\* the largest m in lo..hi-1 with m <= b*sqrt(5) (bisection)
FloorMulIn(b, lo, hi) ==
    IF hi - lo <= 1 THEN lo
    ELSE LET mid == lo + (hi - lo) \div 2
         IN  IF ~ExceedsSqrt5(mid, b) THEN FloorMulIn(b, mid, hi)
             ELSE FloorMulIn(b, lo, mid)

\* floor(b*sqrt(5)) for an integer b >= 0
FloorMulSqrt5(b) == IF b = 0 THEN 0 ELSE FloorMulIn(b, 2 * b, 3 * b)

\* floor and ceiling of a + b*sqrt(5)
FloorF(x) ==
    IF x[2] >= 0 THEN x[1] + FloorMulSqrt5(x[2])
    ELSE x[1] - FloorMulSqrt5(-x[2]) - 1

CeilF(x) == IF x[2] = 0 THEN x[1] ELSE FloorF(x) + 1

\* x # 0 implies |x| > 1 / GapInv(x): |x| * |a - b*sqrt 5| = |a*a - 5*b*b|
\* is a positive integer, and |a - b*sqrt 5| < |a| + 3|b|
GapInv(x) == Abs(x[1]) + 3 * Abs(x[2])

\* integers above and below sqrt(w), for w >= 0
CeilRoot(w) == ISqrt(CeilF(w)) + 1

FloorRoot(w) == ISqrt(FloorF(w))

\* the sign of x - (p/q)*sqrt(w), for Nums x and w >= 0 and integers
\* p > 0, q > 0.  The first arms decide by integer bounds (they are what
\* decides a comparison against a tolerance, whose exact form needs more
\* than 32 bits); the last arm is the exact sign of q*q*x*x - p*p*w.
SignVsRoot(x, p, q, w) ==
    CASE FSign(x) < 0 -> -1
      [] FSign(x) = 0 -> (IF FSign(w) = 0 THEN 0 ELSE -1)
      [] FSign(x) > 0 /\ FSign(w) = 0 -> 1
      [] FSign(x) > 0 /\ FSign(w) > 0 ->
            LET up == CeilRoot(w)
                dn == FloorRoot(w)
            IN  CASE FloorF(x) >= 1 /\ up <= 2000000000 \div p
                        /\ FloorF(x) > (p * up) \div q -> 1
                  [] up * GapInv(x) <= q \div p -> 1
                  [] dn >= 1 /\ dn <= 2000000000 \div p
                        /\ CeilF(x) <= (p * dn - 1) \div q -> -1
                  [] dn >= 1 /\ CeilF(x) < p \div q -> -1
                  [] OTHER ->
                        FSign(FSub(FScale(FMul(x, x), q * q), FScale(w, p * p)))

\* the sign of x - (p/q)*w, for Nums x and w > 0 and integers p, q > 0
SignVsLin(x, p, q, w) ==
    CASE FSign(x) <= 0 -> -1
      [] FSign(x) > 0 ->
            CASE FloorF(x) >= 1 /\ CeilF(w) <= 2000000000 \div p
                        /\ FloorF(x) > (p * CeilF(w)) \div q -> 1
              [] OTHER -> FSign(FSub(FScale(x, q), FScale(w, p)))

(***************************************************************************)
(* Vector Math (a Vec3 is <<x, y, z>>)                                     *)
(***************************************************************************)
dot(a, b) == FAdd(FAdd(FMul(a[1], b[1]), FMul(a[2], b[2])), FMul(a[3], b[3]))

cross(a, b) ==
    << FSub(FMul(a[2], b[3]), FMul(a[3], b[2])),
       FSub(FMul(a[3], b[1]), FMul(a[1], b[3])),
       FSub(FMul(a[1], b[2]), FMul(a[2], b[1])) >>

add(a, b) == <<FAdd(a[1], b[1]), FAdd(a[2], b[2]), FAdd(a[3], b[3])>>

subtract(a, b) == <<FSub(a[1], b[1]), FSub(a[2], b[2]), FSub(a[3], b[3])>>

\* scale by an integer factor
scale(v, s) == <<FScale(v[1], s), FScale(v[2], s), FScale(v[3], s)>>

\* length(v) < TOL, for a vector whose components count units of 1/den:
\* sqrt(dot(v, v)) / den < 1 / TOL_INV
LengthBelowTol(v, den) == SignVsRoot(FInt(den), TOL_INV, 1, dot(v, v)) > 0

RECURSIVE Gcd(_, _)
Gcd(a, b) == IF b = 0 THEN a ELSE Gcd(b, a % b)

\* the common integer factor of the six coefficients of v
Content(v) ==
    Gcd(Gcd(Gcd(Abs(v[1][1]), Abs(v[1][2])), Gcd(Abs(v[2][1]), Abs(v[2][2]))),
        Gcd(Abs(v[3][1]), Abs(v[3][2])))

\* v / length(v), held as the direction of v without its common integer
\* factor; below TOL the vector is returned as it is (no caller gets there)
normalize(v, den) ==
    IF LengthBelowTol(v, den) THEN v
    ELSE LET g == Content(v)
         IN  << <<v[1][1] \div g, v[1][2] \div g>>,
                <<v[2][1] \div g, v[2][2] \div g>>,
                <<v[3][1] \div g, v[3][2] \div g>> >>

(***************************************************************************)
(* The point sets                                                          *)
(***************************************************************************)
\* 1/phi = (sqrt 5 - 1)/2 and phi = (1 + sqrt 5)/2, in halves
invphi == <<-1, 1>>

phi == <<1, 1>>

\* baseVertices, in halves (1 is 2 halves)
baseVertices ==
    LET o == FInt(2)
        m == FInt(-2)
        z == FZero
        ip == invphi
        ni == FNeg(invphi)
        ph == phi
        pn == FNeg(phi)
    IN  [ i \in 0..(NUM_VERTICES - 1) |->
          << <<m, m, m>>, <<m, m, o>>, <<m, o, m>>, <<m, o, o>>,
             <<o, m, m>>, <<o, m, o>>, <<o, o, m>>, <<o, o, o>>,
             <<z, ni, pn>>, <<z, ni, ph>>, <<z, ip, pn>>, <<z, ip, ph>>,
             <<pn, z, ni>>, <<pn, z, ip>>, <<ph, z, ni>>, <<ph, z, ip>>,
             <<ni, pn, z>>, <<ni, ph, z>>, <<ip, pn, z>>, <<ip, ph, z>> >>[i + 1] ]

\* scale(baseVertices[i], modelScale): a coordinate of c halves times 0.5
\* is c quarters, so the coefficients stay and the unit becomes 1/CoordDen
scaledVertices == [ i \in 0..(NUM_VERTICES - 1) |-> scale(baseVertices[i], 1) ]

\* a point with integer coordinates, in units of 1/CoordDen
Pt(x, y, z) == <<FInt(x), FInt(y), FInt(z)>>

ZeroBased(s) == [ i \in 0..(Len(s) - 1) |-> s[i + 1] ]

\* other inputs of computeBasePlanes: a cube, a flat square (its corners
\* in crossing order), a tetrahedron
\* with a point in the middle of an edge and a repeated point, a cube with
\* its centre
OtherPointSets ==
    { ZeroBased(<< Pt(-2,-2,-2), Pt(-2,-2,2), Pt(-2,2,-2), Pt(-2,2,2),
                   Pt(2,-2,-2), Pt(2,-2,2), Pt(2,2,-2), Pt(2,2,2) >>),
      ZeroBased(<< Pt(0,0,0), Pt(4,4,0), Pt(4,0,0), Pt(0,4,0) >>),
      ZeroBased(<< Pt(0,0,0), Pt(2,0,0), Pt(4,0,0), Pt(0,4,0), Pt(0,0,4),
                   Pt(0,0,4) >>),
      ZeroBased(<< Pt(-2,-2,-2), Pt(-2,-2,2), Pt(-2,2,-2), Pt(-2,2,2),
                   Pt(0,0,0), Pt(2,-2,-2), Pt(2,-2,2), Pt(2,2,-2),
                   Pt(2,2,2) >>) }

PointSets == {scaledVertices} \cup OtherPointSets

(***************************************************************************)
(* Half-Space Extractor: computeBasePlanes                                 *)
(* A Plane is [n |-> direction, d |-> Num]; see the header for its meaning *)
(***************************************************************************)
VARIABLES
    pc,                 \* where main (or computeBasePlanes) stands
    \* computeBasePlanes: parameters, loop counters i, j, k, locals
    vertices, maxPlanes, ti, tj, tk, planes, count, allBelow, allAbove,
    outcome,            \* the branch the last pass of the loop body took
    \* main
    acquired,           \* the resources obtained, in order
    released,           \* the release calls made, in order
    ret,                \* the value main returned ("none" while it runs)
    numPlanes, warned, running,
    quitQueued,         \* an SDL_QUIT event waits in the event queue
    timeIdx,            \* currentTime, as an index of the angle table
    lastDebugIdx, frameCount,
    rotatedPlanes, px, py, rayDir, pl, tNear, tFar, activePlaneIndex,
    pixels,             \* the pixel buffer, at the sampled indices
    written,            \* writes to each sampled entry in this frame
    presented,          \* frames handed to SDL_RenderPresent
    presentedAtQuit     \* presented when the poll cleared running, or -1

planeVars == <<vertices, maxPlanes, ti, tj, tk, planes, count, allBelow,
               allAbove, outcome>>

resVars == <<acquired, released, ret>>

loopVars == <<numPlanes, warned, running, quitQueued, timeIdx, lastDebugIdx,
              frameCount, presented, presentedAtQuit>>

pixelVars == <<rotatedPlanes, px, py, rayDir, pl, tNear, tFar,
               activePlaneIndex, pixels, written>>

vars == <<pc, planeVars, resVars, loopVars, pixelVars>>

\* the cross product of two edge vectors counts units of 1/CoordDen^2
CrossDen == CoordDen * CoordDen

\* side = dot(n, vertices[m]) - d, as a Num that stands for
\* side / (CoordDen * |n|)
Side(n, d, p) == FSub(dot(n, p), d)

\* side > TOL
AboveTol(side, n) == SignVsRoot(side, CoordDen, TOL_INV, dot(n, n)) > 0

\* side < -TOL
BelowNegTol(side, n) == SignVsRoot(FNeg(side), CoordDen, TOL_INV, dot(n, n)) > 0

\* allBelow and allAbove after the loop over m
ComputeAllBelow(vs, n, d) == \A m \in DOMAIN vs : ~AboveTol(Side(n, d, vs[m]), n)

ComputeAllAbove(vs, n, d) == \A m \in DOMAIN vs : ~BelowNegTol(Side(n, d, vs[m]), n)

\* the triple is kept: allBelow || allAbove
OnOneSide(below, above) == below \/ above

\* Orient with the negation of d left out
OrientKeepsD(n, d, above) ==
    IF above THEN [n |-> scale(n, -1), d |-> d] ELSE [n |-> n, d |-> d]

\* if (allAbove) { n = scale(n, -1); d = -d; }
Orient(n, d, above) ==
    IF above THEN [n |-> scale(n, -1), d |-> FNeg(d)] ELSE [n |-> n, d |-> d]

\* fabs(dot(n1, n2) - 1.0) < 1e-3.  With G = dot(N1, N2), P = |N1|^2 |N2|^2
\* and C = P - G*G (never negative), dot(n1, n2) = G / sqrt(P), so the test
\* is G > 0 and (1 - 1e-3)^2 < 1 - C/P < (1 + 1e-3)^2
DotClose(n1, n2) ==
    LET G == dot(n1, n2)
        P == FMul(dot(n1, n1), dot(n2, n2))
        C == FSub(P, FMul(G, G))
        T == DUP_TOL_INV
    IN  /\ FSign(G) > 0
        /\ SignVsLin(C, 2 * T - 1, T * T, P) < 0
        /\ SignVsLin(FNeg(C), 2 * T + 1, T * T, P) < 0

\* fabs(a.d - b.d) < 1e-3, for planes of one direction (C = 0 and G > 0
\* above): then N_b = (G / |N_a|^2) N_a and
\* a.d - b.d stands for (a.d*G - b.d*|N_a|^2) / (CoordDen * G * |N_a|).
\* Planes of different directions that pass DotClose have no value here.
OffsetClose(a, b) ==
    LET G == dot(a.n, b.n)
        Na == dot(a.n, a.n)
        P == FMul(Na, dot(b.n, b.n))
        C == FSub(P, FMul(G, G))
        E == FSub(FMul(a.d, G), FMul(b.d, Na))
    IN  CASE FSign(C) = 0 /\ FSign(G) > 0 ->
            SignVsRoot(FAbs(E), CoordDen, DUP_TOL_INV, FMul(FMul(G, G), Na)) < 0

\* the scan that looks at the last accepted plane only
duplicateLastOnly(pls, cnt, cand) ==
    \E p \in {cnt - 1} \cap (DOMAIN pls) :
        DotClose(pls[p].n, cand.n) /\ OffsetClose(pls[p], cand)

\* the scan started at p = 1
duplicateFromOne(pls, cnt, cand) ==
    \E p \in 1..(cnt - 1) : DotClose(pls[p].n, cand.n) /\ OffsetClose(pls[p], cand)

\* the scan of the planes accepted so far
duplicate(pls, cnt, cand) ==
    \E p \in 0..(cnt - 1) : DotClose(pls[p].n, cand.n) /\ OffsetClose(pls[p], cand)

\* the capacity test with <= for <
HasRoomInclusive(cnt, maxP) == cnt <= maxP

\* count < maxPlanes
HasRoom(cnt, maxP) == cnt < maxP

\* the body of the innermost loop for the triple i < j < k
ProcessTriple(vs, i, j, k, pls, cnt, maxP) ==
    LET v1 == subtract(vs[j], vs[i])
        v2 == subtract(vs[k], vs[i])
        n0 == cross(v1, v2)
    IN  IF LengthBelowTol(n0, CrossDen)
        THEN [planes |-> pls, count |-> cnt, outcome |-> "collinear",
              below |-> FALSE, above |-> FALSE]
        ELSE
        LET n == normalize(n0, CrossDen)
            d == dot(n, vs[i])
            below == ComputeAllBelow(vs, n, d)
            above == ComputeAllAbove(vs, n, d)
            cand == Orient(n, d, above)
        IN  IF ~OnOneSide(below, above)
            THEN [planes |-> pls, count |-> cnt, outcome |-> "split",
                  below |-> below, above |-> above]
            ELSE IF duplicate(pls, cnt, cand)
            THEN [planes |-> pls, count |-> cnt, outcome |-> "duplicate",
                  below |-> below, above |-> above]
            ELSE IF HasRoom(cnt, maxP)
            THEN [planes |-> [p \in (DOMAIN pls) \cup {cnt} |->
                                 IF p = cnt THEN cand ELSE pls[p]],
                  count |-> cnt + 1, outcome |-> "stored",
                  below |-> below, above |-> above]
            ELSE [planes |-> pls, count |-> cnt, outcome |-> "dropped",
                  below |-> below, above |-> above]

\* the loop counters after the body: k++, then j++, then i++
NextTriple(n, i, j, k) ==
    IF k + 1 < n THEN <<i, j, k + 1>>
    ELSE IF j + 2 < n THEN <<i, j + 1, j + 2>>
    ELSE IF i + 3 < n THEN <<i + 1, i + 2, i + 3>>
    ELSE <<n, n, n>>

numVertices == Cardinality(DOMAIN vertices)

EmptyPlanes == [p \in {} |-> 0]

\* int count = 0, and the loop counters at the first triple, if any
EnterPlanes ==
    /\ pc = "call"
    /\ pc' = "computeBasePlanes"
    /\ planes' = EmptyPlanes
    /\ count' = 0
    /\ outcome' = "none"
    /\ IF numVertices >= 3 THEN ti' = 0 /\ tj' = 1 /\ tk' = 2
       ELSE ti' = numVertices /\ tj' = numVertices /\ tk' = numVertices
    /\ UNCHANGED <<vertices, maxPlanes, allBelow, allAbove>>
    /\ UNCHANGED <<resVars, loopVars, pixelVars>>

\* one pass of the loop body
TripleStep ==
    /\ pc = "computeBasePlanes"
    /\ ti < numVertices
    /\ LET r == ProcessTriple(vertices, ti, tj, tk, planes, count, maxPlanes)
           nx == NextTriple(numVertices, ti, tj, tk)
       IN  /\ planes' = r.planes
           /\ count' = r.count
           /\ outcome' = r.outcome
           /\ allBelow' = r.below
           /\ allAbove' = r.above
           /\ ti' = nx[1]
           /\ tj' = nx[2]
           /\ tk' = nx[3]
    /\ UNCHANGED <<pc, vertices, maxPlanes>>
    /\ UNCHANGED <<resVars, loopVars, pixelVars>>

\* return count
PlanesReturn ==
    /\ pc = "computeBasePlanes"
    /\ ti >= numVertices
    /\ pc' = "planesReturned"
    /\ UNCHANGED <<planeVars, resVars, loopVars, pixelVars>>

(***************************************************************************)
(* Frame state: the rotation                                               *)
(***************************************************************************)
\* the last entry of the angle table
MaxTime == 3

\* <<cos(angle), sin(angle), cos(angle * 0.5), sin(angle * 0.5)>> for the
\* angles idx * pi, at which all four are integers; currentTime / 1000.0
\* comes within half a millisecond of each of them
AngleTrig(idx) ==
    LET q == idx % 4
    IN  << IF idx % 2 = 0 THEN 1 ELSE -1,
           0,
           IF q = 0 THEN 1 ELSE IF q = 2 THEN -1 ELSE 0,
           IF q = 1 THEN 1 ELSE IF q = 3 THEN -1 ELSE 0 >>

rotate(v, trig) ==
    LET cosA == trig[1]
        sinA == trig[2]
        cosB == trig[3]
        sinB == trig[4]
        x == FAdd(FScale(v[1], cosA), FScale(v[3], sinA))
        z == FAdd(FScale(v[1], -sinA), FScale(v[3], cosA))
        y == v[2]
        y2 == FSub(FScale(y, cosB), FScale(z, sinB))
        z2 == FAdd(FScale(y, sinB), FScale(z, cosB))
    IN  <<x, y2, z2>>

\* rotatedPlanes[i].n = rotate(basePlanes[i].n, angle), d unchanged
RotatePlanes(base, n, trig) ==
    [ i \in 0..(n - 1) |-> [n |-> rotate(base[i].n, trig), d |-> base[i].d] ]

(***************************************************************************)
(* Polyhedron Ray Tracer                                                   *)
(***************************************************************************)
\* the pixels of a frame that the model traces: GridW columns and GridH
\* rows of the screen, spaced around its centre, in the order of the loops
GridW == 4

GridH == 2

XOf(i) == WINDOW_WIDTH \div 2 + (i - GridW \div 2) * (WINDOW_WIDTH \div 5)

YOf(j) == WINDOW_HEIGHT \div 2 + (j - GridH \div 2) * (WINDOW_HEIGHT \div 4)

\* the index without the row offset
PixelIndexNoRow(x, y) == x

\* y * WINDOW_WIDTH + x
PixelIndex(x, y) == y * WINDOW_WIDTH + x

SampledIndices == { PixelIndex(XOf(i), YOf(j)) : i \in 0..(GridW - 1), j \in 0..(GridH - 1) }

scaleFactor == 300

\* camPos = {0, 0, -5}, in units of 1/CoordDen
camPos == <<FInt(0), FInt(0), FInt(-5 * CoordDen)>>

\* lightDir = normalize({1, 1, -1})
lightDir == normalize(<<FInt(1), FInt(1), FInt(-1)>>, 1)

\* the fallback normal {0, 0, 1}
FallbackNormal == <<FInt(0), FInt(0), FInt(1)>>

\* the background colour 0x00FF00
BACKGROUND == 65280

\* the initial tFar = 1e9 (tNear = -1e9)
T_INIT == 1000000000

\* {u, v, 5} with u = (x - halfWidth) / scaleFactor and
\* v = (halfHeight - y) / scaleFactor, in units of 1 / (2 * scaleFactor)
RayVector(x, y) ==
    <<FInt(2 * x - WINDOW_WIDTH), FInt(WINDOW_HEIGHT - 2 * y), FInt(5 * 2 * scaleFactor)>>

RayDir(x, y) == normalize(RayVector(x, y), 2 * scaleFactor)

\* A ray parameter is a literal v (k = "lit") or, for a ray of direction R,
\* the value (num / den) * |R| / CoordDen (k = "ray")
TLit(v) == [k |-> "lit", v |-> v, num |-> FZero, den |-> FInt(1)]

TRay(num, den) == [k |-> "ray", v |-> 0, num |-> num, den |-> den]

\* the sign of a - v for a ray parameter a and an integer v
TCmpLit(a, v, R) ==
    LET x == FScale(a.num, FSign(a.den))
        ad == FAbs(a.den)
        \* 1 when |a| < |v|, -1 when |a| > |v| (v # 0):
        \* CoordDen*|den| against sqrt(x*x*|R|^2) / |v|
        inside == SignVsRoot(FScale(ad, CoordDen), 1, Abs(v),
                             FMul(FMul(x, x), dot(R, R)))
    IN  IF v = 0 THEN FSign(x)
        ELSE IF v > 0 THEN (IF FSign(x) <= 0 THEN -1 ELSE -inside)
        ELSE (IF FSign(x) >= 0 THEN 1 ELSE inside)

\* the sign of a - b for two ray parameters of the ray of direction R
TCmp(a, b, R) ==
    IF a.k = "lit" /\ b.k = "lit" THEN Sgn(a.v - b.v)
    ELSE IF a.k = "ray" /\ b.k = "lit" THEN TCmpLit(a, b.v, R)
    ELSE IF a.k = "lit" /\ b.k = "ray" THEN -TCmpLit(b, a.v, R)
    ELSE FSign(FSub(FMul(a.num, b.den), FMul(b.num, a.den)))
            * FSign(a.den) * FSign(b.den)

\* fabs(denom) < TOL, denom = dot(n, rayDir)
Parallel(plane, R) ==
    SignVsRoot(FAbs(dot(plane.n, R)), 1, TOL_INV,
               FMul(dot(plane.n, plane.n), dot(R, R))) < 0

\* t = (d - dot(n, camPos)) / denom
CrossingT(plane, R) == TRay(FSub(plane.d, dot(plane.n, camPos)), dot(plane.n, R))

\* denom < 0
Entering(plane, R) == FSign(dot(plane.n, R)) < 0

\* the test of an entering plane with >= for >
RaisesNearOrEqual(t, near, R) == TCmp(t, near, R) >= 0

\* t > tNear
RaisesNear(t, near, R) == TCmp(t, near, R) > 0

\* t < tFar
LowersFar(t, far, R) == TCmp(t, far, R) < 0

\* the body of the loop over the planes, for plane i
TraceStep(st, plane, i, R) ==
    IF Parallel(plane, R) THEN st
    ELSE LET t == CrossingT(plane, R)
         IN  IF Entering(plane, R)
             THEN (IF RaisesNear(t, st.tNear, R)
                   THEN [st EXCEPT !.tNear = t, !.active = i] ELSE st)
             ELSE (IF LowersFar(t, st.tFar, R)
                   THEN [st EXCEPT !.tFar = t] ELSE st)

\* the miss test with && for ||
MissBoth(near, far, R) == TCmp(near, far, R) > 0 /\ TCmp(far, TLit(0), R) < 0

\* tNear > tFar || tFar < 0
Miss(near, far, R) == TCmp(near, far, R) > 0 \/ TCmp(far, TLit(0), R) < 0

\* tHit = (tNear >= 0) ? tNear : tFar (hitPoint, made from it, is not used)
tHit(near, far, R) == IF TCmp(near, TLit(0), R) >= 0 THEN near ELSE far

\* surfNormal
SurfNormal(rplanes, active) ==
    IF active >= 0 THEN rplanes[active].n ELSE FallbackNormal

\* diff = dot(surfNormal, lightDir): [s, w] stands for s / sqrt(w)
Diffuse(n, light) == [s |-> dot(n, light), w |-> FMul(dot(n, n), dot(light, light))]

\* if (diff < 0) diff = 0
ClampNegative(diff) == IF FSign(diff.s) < 0 THEN [diff EXCEPT !.s = FZero] ELSE diff

RECURSIVE TruncIn(_, _, _, _)
\* the largest k in lo..hi-1 with k * sqrt(w) <= x (bisection)
TruncIn(x, w, lo, hi) ==
    IF hi - lo <= 1 THEN lo
    ELSE LET mid == lo + (hi - lo) \div 2
         IN  IF SignVsRoot(x, mid, 1, w) >= 0 THEN TruncIn(x, w, mid, hi)
             ELSE TruncIn(x, w, lo, mid)

\* (int)(diff * 255): truncation toward zero.  |diff| <= 1, so the search
\* stops at 256, which stands for every value above 255
Trunc255(diff) ==
    FSign(diff.s) * TruncIn(FScale(FAbs(diff.s), 255), diff.w, 0, 257)

\* if (c > 255) c = 255
ClampTop(c) == IF c > 255 THEN 255 ELSE c

\* the intensity without the clamp of a negative diff
IntensityUnclamped(diff) == ClampTop(Trunc255(diff))

Intensity(diff) == ClampTop(Trunc255(ClampNegative(diff)))

\* 0x000000 | (c << 16) | (c << 8) | c, the three bytes being disjoint
PackColor(c) == c * 65536 + c * 256 + c

\* lines 235-248: the value written to the pixel
PixelColor(near, far, active, rplanes, R) ==
    IF Miss(near, far, R) THEN BACKGROUND
    ELSE PackColor(Intensity(Diffuse(SurfNormal(rplanes, active), lightDir)))

(***************************************************************************)
(* main: start-up                                                          *)
(***************************************************************************)
\* frames the model lets the loop present
MaxFrames == 2

Resources == <<"SDL_Init", "window", "renderer", "texture", "pixels">>

\* the release calls of each failure branch and of the normal exit
WindowFailure == <<"SDL_Quit">>

RendererFailure == <<"SDL_DestroyWindow", "SDL_Quit">>

TextureFailure == <<"SDL_DestroyRenderer", "SDL_DestroyWindow", "SDL_Quit">>

\* the malloc branch without SDL_DestroyTexture
MallocFailureLeak == <<"SDL_DestroyRenderer", "SDL_DestroyWindow", "SDL_Quit">>

MallocFailure ==
    <<"SDL_DestroyTexture", "SDL_DestroyRenderer", "SDL_DestroyWindow", "SDL_Quit">>

NormalExit ==
    <<"free", "SDL_DestroyTexture", "SDL_DestroyRenderer", "SDL_DestroyWindow",
      "SDL_Quit">>

\* one acquisition step succeeds
Acquire(at, res, next) ==
    /\ pc = at
    /\ acquired' = Append(acquired, res)
    /\ pc' = next
    /\ UNCHANGED <<released, ret>>

\* one acquisition step fails: the branch releases and returns 1
Fail(at, releases) ==
    /\ pc = at
    /\ released' = released \o releases
    /\ ret' = 1
    /\ pc' = "exit"
    /\ UNCHANGED acquired

DoSDLInit ==
    /\ \/ Acquire("SDL_Init", "SDL_Init", "SDL_CreateWindow")
       \/ Fail("SDL_Init", <<>>)
    /\ UNCHANGED <<planeVars, loopVars, pixelVars>>

CreateWindow ==
    /\ \/ Acquire("SDL_CreateWindow", "window", "SDL_CreateRenderer")
       \/ Fail("SDL_CreateWindow", WindowFailure)
    /\ UNCHANGED <<planeVars, loopVars, pixelVars>>

CreateRenderer ==
    /\ \/ Acquire("SDL_CreateRenderer", "renderer", "SDL_CreateTexture")
       \/ Fail("SDL_CreateRenderer", RendererFailure)
    /\ UNCHANGED <<planeVars, loopVars, pixelVars>>

CreateTexture ==
    /\ \/ Acquire("SDL_CreateTexture", "texture", "malloc")
       \/ Fail("SDL_CreateTexture", TextureFailure)
    /\ UNCHANGED <<planeVars, loopVars, pixelVars>>

\* malloc of the pixel buffer; on success scaledVertices is filled and
\* computeBasePlanes(scaledVertices, NUM_VERTICES, basePlanes, MAX_PLANES)
\* is called
AllocPixels ==
    \/ /\ Acquire("malloc", "pixels", "call")
       /\ vertices' = scaledVertices
       /\ maxPlanes' = MAX_PLANES
       /\ UNCHANGED <<ti, tj, tk, planes, count, allBelow, allAbove, outcome>>
       /\ UNCHANGED <<loopVars, pixelVars>>
    \/ /\ Fail("malloc", MallocFailure)
       /\ UNCHANGED <<planeVars, loopVars, pixelVars>>

\* numPlanes = the returned count, the warning if it is not 12, and the
\* set-up of the loop: frameCount = 0, lastDebugTime, running = 1
CheckPlaneCount ==
    /\ pc = "planesReturned"
    /\ acquired # <<>>
    /\ numPlanes' = count
    /\ warned' = (count # 12)
    /\ frameCount' = 0
    /\ lastDebugIdx' = timeIdx
    /\ running' = TRUE
    /\ pc' = "loopTest"
    /\ UNCHANGED <<quitQueued, timeIdx, presented, presentedAtQuit>>
    /\ UNCHANGED <<planeVars, resVars, pixelVars>>

(***************************************************************************)
(* main: the frame loop                                                    *)
(***************************************************************************)
LoopPcs == {"loopTest", "pollEvents", "beginFrame", "pixel", "plane", "nextPixel",
            "present"}

FramePcs == {"pixel", "plane", "nextPixel", "present"}

\* the user closes the window: an SDL_QUIT event enters the queue
UserQuit ==
    /\ pc \in LoopPcs
    /\ running
    /\ ~quitQueued
    /\ quitQueued' = TRUE
    /\ UNCHANGED <<numPlanes, warned, running, timeIdx, lastDebugIdx, frameCount,
                   presented, presentedAtQuit>>
    /\ UNCHANGED <<pc, planeVars, resVars, pixelVars>>

\* while (running); the model follows the loop for MaxFrames frames
LoopTest ==
    /\ pc = "loopTest"
    /\ \/ /\ running
          /\ presented < MaxFrames
          /\ pc' = "pollEvents"
       \/ /\ ~running
          /\ pc' = "cleanup"
    /\ UNCHANGED <<planeVars, resVars, loopVars, pixelVars>>

\* while (SDL_PollEvent(&event)) if (event.type == SDL_QUIT) running = 0;
PollEvents ==
    /\ pc = "pollEvents"
    /\ running' = (IF quitQueued THEN FALSE ELSE running)
    /\ presentedAtQuit' = (IF quitQueued /\ running THEN presented ELSE presentedAtQuit)
    /\ quitQueued' = FALSE
    /\ pc' = "beginFrame"
    /\ UNCHANGED <<numPlanes, warned, timeIdx, lastDebugIdx, frameCount, presented>>
    /\ UNCHANGED <<planeVars, resVars, pixelVars>>

\* currentTime = SDL_GetTicks(), angle, the rotated planes; y = 0, x = 0
BeginFrame ==
    /\ pc = "beginFrame"
    /\ \E now \in timeIdx..MaxTime :
          /\ timeIdx' = now
          /\ rotatedPlanes' = RotatePlanes(planes, numPlanes, AngleTrig(now))
    /\ py' = 0
    /\ px' = 0
    /\ written' = [ i \in SampledIndices |-> 0 ]
    /\ pc' = "pixel"
    /\ UNCHANGED <<rayDir, pl, tNear, tFar, activePlaneIndex, pixels>>
    /\ UNCHANGED <<numPlanes, warned, running, quitQueued, lastDebugIdx, frameCount,
                   presented, presentedAtQuit>>
    /\ UNCHANGED <<planeVars, resVars>>

\* rayDir, tNear = -1e9, tFar = 1e9, activePlaneIndex = -1, i = 0
StartPixel ==
    /\ pc = "pixel"
    /\ rayDir' = RayDir(XOf(px), YOf(py))
    /\ tNear' = TLit(-T_INIT)
    /\ tFar' = TLit(T_INIT)
    /\ activePlaneIndex' = -1
    /\ pl' = 0
    /\ pc' = "plane"
    /\ UNCHANGED <<rotatedPlanes, px, py, pixels, written>>
    /\ UNCHANGED <<planeVars, resVars, loopVars>>

\* one pass of the loop over the planes
PlaneStep ==
    /\ pc = "plane"
    /\ pl < numPlanes
    /\ LET st == TraceStep([tNear |-> tNear, tFar |-> tFar, active |-> activePlaneIndex],
                           rotatedPlanes[pl], pl, rayDir)
       IN  /\ tNear' = st.tNear
           /\ tFar' = st.tFar
           /\ activePlaneIndex' = st.active
    /\ pl' = pl + 1
    /\ UNCHANGED <<pc, rotatedPlanes, px, py, rayDir, pixels, written>>
    /\ UNCHANGED <<planeVars, resVars, loopVars>>

\* the pixel is written, on the miss branch or on the hit branch
ShadePixel ==
    /\ pc = "plane"
    /\ pl >= numPlanes
    /\ LET idx == PixelIndex(XOf(px), YOf(py))
           col == PixelColor(tNear, tFar, activePlaneIndex, rotatedPlanes, rayDir)
       IN  /\ pixels' = [pixels EXCEPT ![idx] = col]
           /\ written' = [written EXCEPT ![idx] = @ + 1]
    /\ pc' = "nextPixel"
    /\ UNCHANGED <<rotatedPlanes, px, py, rayDir, pl, tNear, tFar, activePlaneIndex>>
    /\ UNCHANGED <<planeVars, resVars, loopVars>>

\* x++, and y++ at the end of a row
NextPixel ==
    /\ pc = "nextPixel"
    /\ IF px + 1 < GridW THEN px' = px + 1 /\ py' = py /\ pc' = "pixel"
       ELSE IF py + 1 < GridH THEN px' = 0 /\ py' = py + 1 /\ pc' = "pixel"
       ELSE px' = 0 /\ py' = py + 1 /\ pc' = "present"
    /\ UNCHANGED <<rotatedPlanes, rayDir, pl, tNear, tFar, activePlaneIndex, pixels,
                   written>>
    /\ UNCHANGED <<planeVars, resVars, loopVars>>

\* SDL_UpdateTexture .. SDL_RenderPresent, frameCount++, the report once a
\* second has passed (the angle table advances by more than a second per
\* entry), SDL_Delay(1)
Present ==
    /\ pc = "present"
    /\ presented' = presented + 1
    /\ IF timeIdx # lastDebugIdx
       THEN lastDebugIdx' = timeIdx /\ frameCount' = 0
       ELSE lastDebugIdx' = lastDebugIdx /\ frameCount' = frameCount + 1
    /\ pc' = "loopTest"
    /\ UNCHANGED <<numPlanes, warned, running, quitQueued, timeIdx, presentedAtQuit>>
    /\ UNCHANGED <<planeVars, resVars, pixelVars>>

\* free(pixels) .. SDL_Quit(); return 0
Cleanup ==
    /\ pc = "cleanup"
    /\ released' = released \o NormalExit
    /\ ret' = 0
    /\ pc' = "exit"
    /\ UNCHANGED acquired
    /\ UNCHANGED <<planeVars, loopVars, pixelVars>>

(***************************************************************************)
(* Specifications                                                          *)
(***************************************************************************)
\* what an entry of the malloc'ed buffer holds before its first write: the
\* program never reads it, and no write produces this value
UNINITIALISED == -1

\* everything of main before it runs
MainIdle ==
    /\ acquired = <<>>
    /\ released = <<>>
    /\ ret = "none"
    /\ numPlanes = -1
    /\ warned = FALSE
    /\ running = FALSE
    /\ quitQueued = FALSE
    /\ timeIdx = 0
    /\ lastDebugIdx = 0
    /\ frameCount = 0
    /\ presented = 0
    /\ presentedAtQuit = -1
    /\ rotatedPlanes = EmptyPlanes
    /\ px = 0
    /\ py = 0
    /\ rayDir = FallbackNormal
    /\ pl = 0
    /\ tNear = TLit(-T_INIT)
    /\ tFar = TLit(T_INIT)
    /\ activePlaneIndex = -1
    /\ pixels = [ i \in SampledIndices |-> UNINITIALISED ]
    /\ written = [ i \in SampledIndices |-> 0 ]

PlanesIdle ==
    /\ planes = EmptyPlanes
    /\ count = 0
    /\ ti = 0
    /\ tj = 0
    /\ tk = 0
    /\ allBelow = FALSE
    /\ allAbove = FALSE
    /\ outcome = "none"

\* the program: main from its first statement
Init ==
    /\ pc = "SDL_Init"
    /\ vertices = EmptyPlanes
    /\ maxPlanes = 0
    /\ PlanesIdle
    /\ MainIdle

Next ==
    \/ DoSDLInit
    \/ CreateWindow
    \/ CreateRenderer
    \/ CreateTexture
    \/ AllocPixels
    \/ EnterPlanes
    \/ TripleStep
    \/ PlanesReturn
    \/ CheckPlaneCount
    \/ UserQuit
    \/ LoopTest
    \/ PollEvents
    \/ BeginFrame
    \/ StartPixel
    \/ PlaneStep
    \/ ShadePixel
    \/ NextPixel
    \/ Present
    \/ Cleanup

Spec == Init /\ [][Next]_vars

\* computeBasePlanes alone, called on each point set with each capacity
InitPlanes ==
    /\ pc = "call"
    /\ vertices \in PointSets
    /\ maxPlanes \in {0, SmallCap, MAX_PLANES}
    /\ PlanesIdle
    /\ MainIdle

NextPlanes == EnterPlanes \/ TripleStep \/ PlanesReturn

SpecPlanes == InitPlanes /\ [][NextPlanes]_vars

(***************************************************************************)
(* Properties of computeBasePlanes                                         *)
(***************************************************************************)
\* the program counter values at which main holds the result of the call
AfterPlanes == LoopPcs \cup {"cleanup"}

\* C1: for the 20 dodecahedron points scaled by 0.5 and maxPlanes = 30,
\* computeBasePlanes returns exactly 12, so main never prints the
\* "Expected 12 planes" warning on a normal run.
C1_TwelvePlanes ==
    /\ pc = "planesReturned" => count = 12
    /\ pc \in AfterPlanes => numPlanes = 12 /\ ~warned
    /\ (pc = "exit" /\ ret = 0) => numPlanes = 12 /\ ~warned

C1_Witness ==
    /\ pc = "loopTest"
    /\ vertices = scaledVertices
    /\ maxPlanes = MAX_PLANES
    /\ numPlanes = 12
    /\ Cardinality(DOMAIN planes) = 12

\* C2: every stored plane has every input point on its inner side,
\* dot(n, p) <= d + 1e-6; a triple that splits the points is never stored,
\* and a triple with all points above (also when all points lie on the
\* plane and both flags hold) is stored with n and d negated.
C2_HalfSpace ==
    /\ \A p \in DOMAIN planes : \A m \in DOMAIN vertices :
          ~AboveTol(Side(planes[p].n, planes[p].d, vertices[m]), planes[p].n)
    /\ outcome \in {"stored", "duplicate", "dropped"} => allBelow \/ allAbove
    /\ outcome = "split" => ~allBelow /\ ~allAbove

\* a triple with the points strictly on its positive side has been stored
C2_Witness ==
    /\ outcome = "stored"
    /\ allAbove
    /\ ~allBelow
    /\ count >= 1

\* the case of C2 in which every point lies on the plane
C2_CoplanarStored == outcome = "stored" /\ allAbove /\ allBelow

\* C3: no two stored planes planes[a], planes[b], a < b < count, are
\* duplicates (|dot(n_a, n_b) - 1| < 1e-3 and |d_a - d_b| < 1e-3), after
\* every iteration of the triple loop and at return.
C3_NoDuplicates ==
    \A a \in DOMAIN planes : \A b \in DOMAIN planes :
        a < b => ~(DotClose(planes[a].n, planes[b].n) /\ OffsetClose(planes[a], planes[b]))

\* a candidate has been rejected as the duplicate of one of several planes
C3_Witness ==
    /\ outcome = "duplicate"
    /\ count >= 2

\* a step of the triple loop either leaves the stored planes alone or
\* stores one plane at index count, below maxPlanes
C4_Step ==
    /\ planes' # planes =>
          /\ count < maxPlanes
          /\ count' = count + 1
          /\ DOMAIN planes' = DOMAIN planes \cup {count}
          /\ \A p \in DOMAIN planes : planes'[p] = planes[p]
    /\ planes' = planes => count' = count
    /\ (pc' = "computeBasePlanes" /\ outcome' = "dropped") =>
          /\ count = maxPlanes
          /\ planes' = planes
          /\ count' = count
    /\ count = maxPlanes => planes' = planes

\* C4: 0 <= count <= maxPlanes throughout, a write goes only to index
\* count (never at or above maxPlanes, never over a stored plane), and at
\* count = maxPlanes a further qualifying plane is dropped: the stored
\* planes and count stay as they are and the loop goes on.
C4_Capacity ==
    /\ [](count \in 0..maxPlanes /\ DOMAIN planes = 0..(count - 1))
    /\ [][C4_Step]_vars

\* a qualifying plane has been dropped at a capacity that is not zero
C4_Witness ==
    /\ outcome = "dropped"
    /\ maxPlanes > 0
    /\ count = maxPlanes

(***************************************************************************)
(* Properties of the tracer                                                *)
(***************************************************************************)
\* the buffer index of the pixel at hand
CurrentIndex == PixelIndex(XOf(px), YOf(py))

\* the planes of the frame, by what the ray of the pixel at hand does
NonParallel == { i \in DOMAIN rotatedPlanes : ~Parallel(rotatedPlanes[i], rayDir) }

EnteringPlanes == { i \in NonParallel : FSign(dot(rotatedPlanes[i].n, rayDir)) < 0 }

ExitingPlanes == { i \in NonParallel : FSign(dot(rotatedPlanes[i].n, rayDir)) > 0 }

\* the crossing parameter of plane i on the ray of the pixel at hand
TOf(i) == CrossingT(rotatedPlanes[i], rayDir)

\* tNear > tFar || tFar < 0, on the values the plane loop left
NoHit == TCmp(tNear, tFar, rayDir) > 0 \/ TCmp(tFar, TLit(0), rayDir) < 0

RedOf(col) == (col \div 65536) % 256

GreenOf(col) == (col \div 256) % 256

BlueOf(col) == col % 256

\* C5: the value written to a pixel is the background colour 0x00FF00
\* exactly when tNear > tFar or tFar < 0 after the plane loop; otherwise it
\* is a grey value of equal R, G and B bytes, never the background colour.
C5_BackgroundIffMiss ==
    pc = "nextPixel" =>
        LET col == pixels[CurrentIndex]
        IN  /\ col = BACKGROUND <=> NoHit
            /\ ~NoHit => /\ RedOf(col) = GreenOf(col)
                         /\ GreenOf(col) = BlueOf(col)

\* a frame in which one pixel was written as a miss and another as a hit
C5_Witness ==
    /\ pc = "nextPixel"
    /\ ~NoHit
    /\ pixels[CurrentIndex] # BACKGROUND
    /\ \E i \in SampledIndices : written[i] = 1 /\ pixels[i] = BACKGROUND

\* diff_a <= diff_b for two values s / sqrt(w)
DiffLeq(a, b) ==
    LET sa == FSign(a.s)
        sb == FSign(b.s)
        l == FMul(FMul(a.s, a.s), b.w)
        r == FMul(FMul(b.s, b.s), a.w)
    IN  IF sa <= 0 /\ sb >= 0 THEN TRUE
        ELSE IF sa >= 0 /\ sb <= 0 THEN FALSE
        ELSE IF sa > 0 THEN FSign(FSub(l, r)) <= 0
        ELSE FSign(FSub(l, r)) >= 0

\* the values diff takes in this frame: one per plane, and the fallback
FrameDiffs ==
    { Diffuse(rotatedPlanes[i].n, lightDir) : i \in DOMAIN rotatedPlanes }
        \cup { Diffuse(FallbackNormal, lightDir) }

\* C6: on a hit the intensity c lies in 0..255, does not decrease as diff
\* grows, is 0 for diff <= 0, and is the value of each of the R, G and B
\* bytes of the pixel, which has no bit above bit 23.
C6_Intensity ==
    (pc = "nextPixel" /\ ~NoHit) =>
        LET col == pixels[CurrentIndex]
            diff == Diffuse(SurfNormal(rotatedPlanes, activePlaneIndex), lightDir)
        IN  /\ col \in 0..16777215
            /\ BlueOf(col) \in 0..255
            /\ col = BlueOf(col) * 65536 + BlueOf(col) * 256 + BlueOf(col)
            /\ FSign(diff.s) <= 0 => col = 0
            /\ \A e \in FrameDiffs :
                  /\ DiffLeq(e, diff) => PackColor(Intensity(e)) <= col
                  /\ DiffLeq(diff, e) => col <= PackColor(Intensity(e))

\* a hit whose surface faces away from the light, in a frame that also has
\* a lit surface
C6_Witness ==
    /\ pc = "nextPixel"
    /\ ~NoHit
    /\ FSign(Diffuse(SurfNormal(rotatedPlanes, activePlaneIndex), lightDir).s) < 0
    /\ pixels[CurrentIndex] = 0
    /\ \E i \in SampledIndices : written[i] = 1 /\ pixels[i] \notin {0, BACKGROUND}

\* C9: after the plane loop activePlaneIndex is -1 exactly when no plane
\* is entering (denom < 0, |denom| >= 1e-6); otherwise it is the lowest
\* index among the entering planes of greatest t and tNear is that t; tFar
\* is the least t of the exiting planes, or its initial value without one;
\* parallel planes (|denom| < 1e-6) count for nothing; and every t that
\* arises lies strictly between the initial tNear and the initial tFar.
C9_TraceResult ==
    (pc = "plane" /\ pl >= numPlanes) =>
        /\ activePlaneIndex = -1 <=> EnteringPlanes = {}
        /\ EnteringPlanes = {} => tNear = TLit(-T_INIT)
        /\ EnteringPlanes # {} =>
              /\ activePlaneIndex \in EnteringPlanes
              /\ TCmp(tNear, TOf(activePlaneIndex), rayDir) = 0
              /\ \A j \in EnteringPlanes :
                    /\ TCmp(TOf(j), tNear, rayDir) <= 0
                    /\ TCmp(TOf(j), tNear, rayDir) = 0 => activePlaneIndex <= j
        /\ ExitingPlanes = {} => tFar = TLit(T_INIT)
        /\ ExitingPlanes # {} =>
              /\ \E m \in ExitingPlanes : TCmp(tFar, TOf(m), rayDir) = 0
              /\ \A j \in ExitingPlanes : TCmp(tFar, TOf(j), rayDir) <= 0
        /\ \A i \in NonParallel :
              /\ TCmp(TOf(i), TLit(-T_INIT), rayDir) > 0
              /\ TCmp(TOf(i), TLit(T_INIT), rayDir) < 0

\* a ray with a parallel plane and with two entering planes of the same,
\* greatest t
C9_Witness ==
    /\ pc = "plane"
    /\ pl >= numPlanes
    /\ numPlanes = 12
    /\ NonParallel # DOMAIN rotatedPlanes
    /\ ExitingPlanes # {}
    /\ \E j \in EnteringPlanes :
          j # activePlaneIndex /\ TCmp(TOf(j), tNear, rayDir) = 0

(***************************************************************************)
(* Properties of the frame loop and of start-up and shutdown               *)
(***************************************************************************)
\* C7: once the event poll has observed SDL_QUIT and cleared running, the
\* loop exits without computing or presenting any further frame: no frame
\* is in computation after that poll, and none is presented after it.
C7_QuitStopsLoop ==
    presentedAtQuit >= 0 =>
        /\ pc \notin FramePcs
        /\ presented = presentedAtQuit

\* what the loop does after that poll: the iteration that polled computes
\* and presents its frame, and the loop then ends
C7_OneMoreFrame ==
    presentedAtQuit >= 0 =>
        /\ ~running
        /\ pc \in {"beginFrame"} \cup FramePcs => presented = presentedAtQuit
        /\ pc \in {"loopTest", "cleanup", "exit"} => presented = presentedAtQuit + 1
        /\ pc # "pollEvents"

\* within a frame every sampled entry is written at most once, and at the
\* present every one has been written in this frame
C8_Written ==
    /\ \A i \in SampledIndices : written[i] <= 1
    /\ pc \in {"pixel", "plane"} => written[CurrentIndex] = 0
    /\ pc = "nextPixel" => written[CurrentIndex] = 1
    /\ pc = "present" =>
          \A i \in SampledIndices : written[i] = 1 /\ pixels[i] # UNINITIALISED

\* a step taken within a frame stays in the frame, writes only the entry of
\* the pixel at hand, and leaves the frame only by presenting it
C8_Step ==
    /\ pc \in FramePcs =>
          /\ pc' \in FramePcs \cup {"loopTest"}
          /\ pc' = "loopTest" => pc = "present" /\ presented' = presented + 1
          /\ pc' # "loopTest" => presented' = presented
    /\ pixels' # pixels =>
          /\ pc = "plane"
          /\ pc' = "nextPixel"
          /\ \A i \in SampledIndices \ {CurrentIndex} : pixels'[i] = pixels[i]
    /\ presented' # presented => pc = "present"

\* C8: in every frame each pixel-buffer entry is written exactly once, by
\* the miss branch or by the hit branch, before the buffer is presented, so
\* a presented frame holds no entry of the frame before or of the malloc;
\* and a frame that has started goes on to its present, also when a quit
\* event arrives meanwhile.
C8_FrameComplete ==
    /\ []C8_Written
    /\ [][C8_Step]_vars

\* a frame reaches its present with a quit event that arrived during it
C8_Witness ==
    /\ pc = "present"
    /\ quitQueued
    /\ running
    /\ presented = 1
    /\ \A i \in SampledIndices : written[i] = 1

\* the call that releases a resource
ReleaseOf(res) ==
    CASE res = "SDL_Init" -> "SDL_Quit"
      [] res = "window" -> "SDL_DestroyWindow"
      [] res = "renderer" -> "SDL_DestroyRenderer"
      [] res = "texture" -> "SDL_DestroyTexture"
      [] res = "pixels" -> "free"

\* the releases of everything in acq, last acquired first
ReverseReleases(acq) ==
    [ i \in 1..Len(acq) |-> ReleaseOf(acq[Len(acq) + 1 - i]) ]

\* C10: a failed acquisition makes main return 1 without entering the
\* frame loop, and a normal quit makes it return 0; either way what was
\* acquired, and nothing else, is released exactly once, last acquired
\* first (SDL_Quit last, and only if SDL_Init succeeded); nothing is
\* released while main still uses it.
C10_Release ==
    /\ pc # "exit" => released = <<>> /\ ret = "none"
    /\ pc = "exit" =>
          /\ released = ReverseReleases(acquired)
          /\ ret \in {0, 1}
          /\ ret = 1 <=> Len(acquired) < Len(Resources)
          /\ ret = 1 => numPlanes = -1 /\ presented = 0 /\ ~running
          /\ ret = 0 => acquired = Resources /\ presentedAtQuit >= 0
    /\ \E n \in 0..Len(Resources) : acquired = SubSeq(Resources, 1, n)
    /\ pc \in AfterPlanes \cup {"call", "computeBasePlanes", "planesReturned"}
          => acquired = Resources

\* malloc failed after the four SDL acquisitions
C10_Witness ==
    /\ pc = "exit"
    /\ ret = 1
    /\ Len(acquired) = 4
    /\ released = ReverseReleases(acquired)
    /\ Len(released) = 4

\* the normal quit
C10_NormalExit == pc = "exit" /\ ret = 0 /\ Len(released) = 5

====
